---- MODULE Spec2Model ----
\* A model of the quilting game's rules engine (model-rs): the time board
\* (track), the piece board (queue) and the value types they are built from.
EXTENDS Integers, Sequences, FiniteSets, TLC

VARIABLES
    squares,        \* TimeBoard.squares: [0 .. len-1 -> Square]
    nplayers,       \* the number of players the play order was built with
    call,           \* the last call made on the engine, with its argument
    result,         \* what that call returned (or that it panicked)
    crossings,      \* history: per square, how many moves ranged over it
    granted,        \* history: per square, how many moves were handed its piece
    piece_queue,    \* PieceBoard.piece_queue, front first
    depth,          \* PieceBoard.depth
    given,          \* history: the piece list the builder was extended with
    ntaken,         \* history: how many takes have returned a piece
    board,          \* a QuiltBoard: its dimension and its rows
    placed_size,    \* history: the sizes of the pieces add_piece has placed, summed
    built_piece     \* the Piece built by Piece::new, if one has been built

vars == <<squares, nplayers, call, result, crossings, granted, piece_queue, depth,
          given, ntaken, board, placed_size, built_piece>>

trackVars == <<squares, nplayers, crossings, granted>>
queueVars == <<piece_queue, depth, given, ntaken>>
quiltVars == <<board, placed_size>>

----------------------------------------------------------------------------
\* Bounds of the model.

\* The longest track (number of squares) a layout is drawn with.
MaxSquares == 3
\* The largest number of players.
MaxPlayers == 3
\* The largest distance passed to move_player.
MaxDistance == 2
\* The longest piece list a queue is built from.
MaxQueue == 4
\* The largest configured take depth, and the largest depth passed to take.
MaxDepth == 2
\* The largest width and height of a dimension a position is transformed in.
MaxSide == 3
\* The largest width and height of a quilt board.
MaxBoard == 2
\* The longest piece list a whole game is built with.
MaxGamePieces == 2
\* The largest x and y of a position given to Piece::new, and the longest
\* list of positions given to it.
MaxCoordinate == 1
MaxCells == 3
\* The number of bits of a usize in the model. The code's usize has 32 or 64;
\* the wrapped values keep their shape at any width, the loops over them
\* are only short enough to follow at a small one.
UsizeBits == 4

----------------------------------------------------------------------------
\* Small helpers.

Min(a, b) == IF a <= b THEN a ELSE b
Max(a, b) == IF a >= b THEN a ELSE b

\* The number of values of a usize, and its arithmetic in a build without
\* overflow checks.
USIZE == 2 ^ UsizeBits
wrapping_add(a, b) == (a + b) % USIZE
wrapping_sub(a, b) == (a - b) % USIZE

\* The two builds: arithmetic overflow panics in "debug" and wraps in "release".
Builds == { "debug", "release" }

\* Option<T>: None is the empty sequence, Some(v) the one-element sequence.
None == << >>
Some(v) == << v >>

\* Vec::swap on a 1-based sequence.
Swap(v, i, j) == [v EXCEPT ![i] = v[j], ![j] = v[i]]

----------------------------------------------------------------------------
\* position.rs: Position and Dimension.

Position(x, y) == [x |-> x, y |-> y]
Dimension(w, h) == [width |-> w, height |-> h]

\* #[derive(Ord)] on Position: by x, then by y.
PosLess(p, q) == p.x < q.x \/ (p.x = q.x /\ p.y < q.y)

\* Position::translate, its sums as a build without overflow checks computes
\* them.
translate(p, other) ==
    Position(wrapping_add(p.x, other.x), wrapping_add(p.y, other.y))

\* One of the sums of translate passes the largest usize.
TranslateOverflows(p, other) == p.x + other.x >= USIZE \/ p.y + other.y >= USIZE

\* Dimension::contains
contains(d, p) == p.x < d.width /\ p.y < d.height

\* Dimension::transpose
transpose(d) == Dimension(d.height, d.width)

----------------------------------------------------------------------------
\* position.rs: Rotation, Flip and Transformation. The subtractions of apply
\* are usize subtractions; they are only ever applied to positions inside d.

Rotations == { "NoRotation", "Clockwise90", "Clockwise180", "Clockwise270" }
Flips == { "Identity", "Horizontal" }

\* Rotation::is_even
is_even(r) == r = "NoRotation" \/ r = "Clockwise180"

\* Mutant of RotationApplyDim: the dimension is never transposed.
RotationApplyDimKept(r, d) == d

\* Rotation::apply_dim
RotationApplyDim(r, d) == IF is_even(r) THEN d ELSE transpose(d)

\* Mutant of RotationApply: Clockwise90 transposes the position, which
\* mirrors it instead of turning it.
RotationApplyMirroring(r, d, p) ==
    CASE r = "NoRotation"   -> Position(p.x, p.y)
      [] r = "Clockwise90"  -> Position(p.y, p.x)
      [] r = "Clockwise180" -> Position(d.width - p.x - 1, d.height - p.y - 1)
      [] r = "Clockwise270" -> Position(p.y, d.width - p.x - 1)

\* Rotation::apply
RotationApply(r, d, p) ==
    CASE r = "NoRotation"   -> Position(p.x, p.y)
      [] r = "Clockwise90"  -> Position(d.height - p.y - 1, p.x)
      [] r = "Clockwise180" -> Position(d.width - p.x - 1, d.height - p.y - 1)
      [] r = "Clockwise270" -> Position(p.y, d.width - p.x - 1)

\* Mutant of FlipApply: the Identity flip mirrors the position too.
FlipApplyAlways(f, d, p) == Position(d.width - p.x - 1, p.y)

\* Flip::apply
FlipApply(f, d, p) ==
    CASE f = "Identity"   -> Position(p.x, p.y)
      [] f = "Horizontal" -> Position(d.width - p.x - 1, p.y)

\* Transformation::new
Transformation(rotation, flip) == [rotation |-> rotation, flip |-> flip]

\* Transformation::identity
TransformationIdentity == Transformation("NoRotation", "Identity")

\* The eight transformations.
Transformations == { Transformation(r, f) : r \in Rotations, f \in Flips }

\* Transformation::apply_dim
TransformationApplyDim(t, d) == RotationApplyDim(t.rotation, d)

\* Mutant of TransformationApply: the flip is taken in the dimension as it was
\* before the rotation.
TransformationApplyFlipInOld(t, d, p) ==
    FlipApply(t.flip, d, RotationApply(t.rotation, d, p))

\* Transformation::apply: the rotation, then the flip in the rotated dimension.
TransformationApply(t, d, p) ==
    LET p1 == RotationApply(t.rotation, d, p)
        d1 == RotationApplyDim(t.rotation, d)
    IN  FlipApply(t.flip, d1, p1)

----------------------------------------------------------------------------
\* piece.rs: Piece.

RECURSIVE InsertSorted(_, _)
InsertSorted(s, p) ==
    IF s = << >> THEN << p >>
    ELSE IF PosLess(p, Head(s)) THEN << p >> \o s
    ELSE << Head(s) >> \o InsertSorted(Tail(s), p)

\* positions.sort()
RECURSIVE SortPositions(_)
SortPositions(s) ==
    IF s = << >> THEN << >>
    ELSE InsertSorted(SortPositions(Tail(s)), Head(s))

\* Mutant of Dedup: repeats are kept.
DedupNothing(s) == s

\* positions.dedup(): drops consecutive repeats.
RECURSIVE Dedup(_)
Dedup(s) ==
    IF Len(s) <= 1 THEN s
    ELSE IF s[1] = s[2] THEN Dedup(Tail(s))
    ELSE << s[1] >> \o Dedup(Tail(s))

RECURSIVE compute_dimension_from(_, _)
compute_dimension_from(s, d) ==
    IF s = << >> THEN d
    ELSE compute_dimension_from(Tail(s),
            Dimension(Max(d.width, Head(s).x + 1), Max(d.height, Head(s).y + 1)))

compute_dimension(positions) == compute_dimension_from(positions, Dimension(0, 0))

PieceNew(positions, cost, distance, collect) ==
    LET ps == Dedup(SortPositions(positions))
    IN  [dimension |-> compute_dimension(ps),
         positions |-> ps,
         cost      |-> cost,
         distance  |-> distance,
         collect   |-> collect]

single_position == PieceNew(<< Position(0, 0) >>, 0, 0, 0)

\* Mutant of PieceDimension: the stored dimension, whatever the transformation.
PieceDimensionStored(p, t) == p.dimension

\* Piece::dimension
PieceDimension(p, t) == TransformationApplyDim(t, p.dimension)

\* Piece::width, Piece::height, Piece::size
PieceWidth(p, t) == PieceDimension(p, t).width
PieceHeight(p, t) == PieceDimension(p, t).height
PieceSize(p) == Len(p.positions)

\* Piece::positions: the stored positions, in stored order, each transformed
\* within the piece's own dimension.
PiecePositions(p, t) ==
    [k \in 1 .. Len(p.positions) |->
        TransformationApply(t, p.dimension, p.positions[k])]

\* Mutant of PositionsOutcome: the positions are transformed in place, so the
\* piece keeps the transformed positions.
PositionsOutcomeInPlace(p, t) ==
    [result |-> PiecePositions(p, t),
     piece  |-> [p EXCEPT !.positions = PiecePositions(p, t),
                          !.dimension = PieceDimension(p, t)]]

\* Piece::positions collected: the sequence the iterator yields and the piece
\* left (the iterator borrows the piece and reads its boxed slice).
PositionsOutcome(p, t) ==
    [result |-> PiecePositions(p, t), piece |-> p]

piece0 == PieceNew(<< Position(0, 0), Position(1, 0), Position(1, 1), Position(1, 2) >>,
                   2, 1, 0)

piece1 == PieceNew(<< Position(0, 0), Position(1, 0), Position(1, 1), Position(1, 2),
                      Position(1, 3), Position(2, 3) >>, 1, 2, 0)
piece2 == PieceNew(<< Position(0, 0), Position(1, 0), Position(1, 1), Position(2, 1),
                      Position(1, 2), Position(2, 2) >>, 8, 6, 3)
piece3 == PieceNew(<< Position(1, 0), Position(0, 1), Position(1, 1) >>, 1, 3, 0)
piece4 == PieceNew(<< Position(1, 0), Position(1, 1), Position(0, 2), Position(1, 2),
                      Position(2, 2), Position(1, 3), Position(1, 4) >>, 1, 4, 1)

----------------------------------------------------------------------------
\* player.rs: Player and PlayOrder. Player(i) is the number i; a PlayOrder is
\* the Vec of its stack, bottom first (push and pop act on the end).

\* Mutant of new_in_order: the players are pushed in increasing order, which
\* leaves the last of them on top.
NewInOrderAscending(n) == [k \in 1 .. n |-> k - 1]

RECURSIVE new_in_order_from(_, _)
new_in_order_from(n, i) ==
    IF i >= n THEN << >>
    ELSE << n - i - 1 >> \o new_in_order_from(n, i + 1)

new_in_order(n) == new_in_order_from(n, 0)

\* Range::new(0, i).ind_sample(rng): the half-open range [0, i).
ShuffleRange(i) == 0 .. (i - 1)

\* shuffle: for i in (1 .. len).rev(), swap(i, j) with j sampled from the range.
\* The set of the vectors the loop can leave, from 0-based index i downwards.
RECURSIVE ShuffleFrom(_, _)
ShuffleFrom(v, i) ==
    IF i < 1 THEN { v }
    ELSE UNION { ShuffleFrom(Swap(v, i + 1, j + 1), i - 1) : j \in ShuffleRange(i) }

Shuffle(v) == ShuffleFrom(v, Len(v) - 1)

\* PlayOrder::new
PlayOrderNew(n) == Shuffle(new_in_order(n))

\* Mutant of PlayOrderPush: the player is put under the stack.
PlayOrderPushUnder(stack, player) == << player >> \o stack

\* Mutant of PlayOrderPush: the player is put just under the top of the stack.
PlayOrderPushSecond(stack, player) ==
    IF stack = << >> THEN << player >>
    ELSE Append(Append(SubSeq(stack, 1, Len(stack) - 1), player), stack[Len(stack)])

PlayOrderPush(stack, player) == Append(stack, player)
PlayOrderPop(stack) == SubSeq(stack, 1, Len(stack) - 1)
\* the value pop() returns
PlayOrderTop(stack) == stack[Len(stack)]

\* Mutant of PlayersNext: the iterator starts at the bottom of the stack.
PlayersNextFromBottom(stack) == IF stack = << >> THEN None ELSE Some(stack[1])

\* Players::next on a fresh iterator: slice::Iter::next_back, the top of the stack.
PlayersNext(stack) == IF stack = << >> THEN None ELSE Some(stack[Len(stack)])

----------------------------------------------------------------------------
\* time_board.rs: Square and TimeBoard.

Square(piece, collect, players) ==
    [piece |-> piece, collect |-> collect, players |-> players]

has_player(square) == square.players # << >>

NumSquares(sq) == Cardinality(DOMAIN sq)

index_of_last_square(sq) == NumSquares(sq) - 1

\* unreachable!(): the panic at the end of the two index searches.
Unreachable == -1

RECURSIVE FirstOccupiedFrom(_, _)
FirstOccupiedFrom(sq, i) ==
    IF i >= NumSquares(sq) THEN Unreachable
    ELSE IF has_player(sq[i]) THEN i
    ELSE FirstOccupiedFrom(sq, i + 1)

index_of_current_player(sq) == FirstOccupiedFrom(sq, 0)

\* Mutant of is_game_over: the index is compared with the number of squares.
IsGameOverPastEnd(sq) == index_of_current_player(sq) = NumSquares(sq)

is_game_over(sq) == index_of_current_player(sq) = index_of_last_square(sq)

current_player(sq) ==
    LET i == index_of_current_player(sq)
    IN  IF i = index_of_last_square(sq) THEN None
        ELSE PlayersNext(sq[i].players)

\* Mutant of index_of_next_player: a lone token counts as a second one.
IndexOfNextPlayerLone(sq) ==
    LET first_index == index_of_current_player(sq)
    IN  IF Len(sq[first_index].players) >= 1 THEN first_index
        ELSE FirstOccupiedFrom(sq, first_index + 1)

index_of_next_player(sq) ==
    LET first_index == index_of_current_player(sq)
    IN  IF Len(sq[first_index].players) > 1 THEN first_index
        ELSE FirstOccupiedFrom(sq, first_index + 1)

\* Mutant of MoveStop: the start is left out of the sum.
MoveStopFromZero(sq, start, distance) == Min(distance, index_of_last_square(sq))

\* stop = cmp::min(start + distance, self.index_of_last_square()), the sum
\* as a build without overflow checks computes it.
MoveStop(sq, start, distance) ==
    Min(wrapping_add(start, distance), index_of_last_square(sq))

\* Mutant of MoveToken: the token is read off the start square, not popped.
MoveTokenNoPop(sq, start, stop) ==
    LET player == PlayOrderTop(sq[start].players)
    IN  [sq EXCEPT ![stop].players = PlayOrderPush(sq[stop].players, player)]

\* The pop from the start square and the push onto the stop square.
MoveToken(sq, start, stop) ==
    LET player == PlayOrderTop(sq[start].players)
        popped == [sq EXCEPT ![start].players = PlayOrderPop(sq[start].players)]
    IN  [popped EXCEPT ![stop].players = PlayOrderPush(popped[stop].players, player)]

\* Mutant of PieceTaken: the piece is read, not taken.
PieceLeft(square) == square

\* Mutant of PieceTaken: the collect flag is consumed along with the piece.
PieceAndCollectTaken(square) == [square EXCEPT !.piece = None, !.collect = FALSE]

\* square.piece.take(): what is left on the square.
PieceTaken(square) == [square EXCEPT !.piece = None]

\* Mutant of SweepSquares: the loop starts at the start square itself.
SweepSquaresFromStart(sq, start, stop) ==
    [i \in DOMAIN sq |->
        IF start <= i /\ i <= stop THEN [sq[i] EXCEPT !.piece = None] ELSE sq[i]]

\* The loop over squares[start + 1 .. stop + 1]: the squares it leaves.
SweepSquares(sq, start, stop) ==
    [i \in DOMAIN sq |->
        IF start + 1 <= i /\ i <= stop THEN PieceTaken(sq[i]) ELSE sq[i]]

\* The loop's result.pieces, in increasing index order.
RECURSIVE SweepPieces(_, _, _)
SweepPieces(sq, i, stop) ==
    IF i > stop THEN << >>
    ELSE sq[i].piece \o SweepPieces(sq, i + 1, stop)

\* Whether the loop counts square i: if square.collect() { result.collects += 1 }
CountsCollect(square) == square.collect

\* The loop's result.collects.
RECURSIVE SweepCollects(_, _, _)
SweepCollects(sq, i, stop) ==
    IF i > stop THEN 0
    ELSE (IF CountsCollect(sq[i]) THEN 1 ELSE 0) + SweepCollects(sq, i + 1, stop)

MoveResult(pieces, collects, distance) ==
    [status |-> "ok", pieces |-> pieces, collects |-> collects, distance |-> distance]

Panic == [status |-> "panic"]
NoResult == [status |-> "none"]
NoCall == [op |-> "none"]


\* serde_json::from_slice(json): a layout gives each square its piece grant and
\* collect flag; players defaults to PlayOrder::empty().
TrackPieces == { single_position }

LayoutSquares ==
    { Square(p, c, << >>) :
        p \in { None } \cup { Some(x) : x \in TrackPieces }, c \in BOOLEAN }

\* The first square, which no move ranges over, is drawn plain or with both a
\* grant and the collect flag; every other square is drawn freely.
FirstSquares ==
    { s \in LayoutSquares : (s.piece # None) = s.collect }

Layouts(n) ==
    { layout \in [0 .. n - 1 -> LayoutSquares] : layout[0] \in FirstSquares }

\* TimeBoard::from_slice: squares[0].players = play_order
TimeBoardFromSlice(play_order, layout) ==
    [layout EXCEPT ![0].players = play_order]

\* The layout of test::TEST_BOARD, [][][][][][C][][C][][C][P][][][][C].
TEST_BOARD ==
    [i \in 0 .. 14 |->
        Square(IF i = 10 THEN Some(single_position) ELSE None,
               i \in { 5, 7, 9, 14 },
               << >>)]

\* Mutant of FromSliceAssert: one player is enough.
FromSliceAssertOne(play_order) == Len(play_order) >= 1

\* assert!(play_order.len() >= 2, ...) of from_slice
FromSliceAssert(play_order) == Len(play_order) >= 2

\* TimeBoard::from_slice: the time board, or the panic of the assertion.
FromSliceOutcome(play_order, layout) ==
    IF FromSliceAssert(play_order)
    THEN [status |-> "ok", value |-> TimeBoardFromSlice(play_order, layout)]
    ELSE Panic

\* TimeBoard::from_slice with PlayOrder::new_in_order(np), called while no
\* time board has been built.
FromSlice(np, layout) ==
    /\ result.status # "panic"
    /\ squares = << >>
    /\ call' = [op |-> "from_slice", nplayers |-> np]
    /\ LET out == FromSliceOutcome(new_in_order(np), layout)
       IN  /\ result' = out
           /\ IF out.status = "ok"
              THEN /\ squares' = out.value
                   /\ nplayers' = np
                   /\ crossings' = [i \in DOMAIN layout |-> 0]
                   /\ granted' = [i \in DOMAIN layout |-> 0]
              ELSE UNCHANGED trackVars
    /\ UNCHANGED <<queueVars, quiltVars, built_piece>>

\* GameBuilder::nplayers: assert!(nplayers >= 2, ...), called before the
\* time board is built.
GameBuilderNplayers(n) ==
    /\ result.status # "panic"
    /\ squares = << >>
    /\ call' = [op |-> "nplayers", arg |-> n]
    /\ result' = IF n >= 2 THEN [status |-> "ok", value |-> n] ELSE Panic
    /\ UNCHANGED <<trackVars, queueVars, quiltVars, built_piece>>

\* Mutant of MoveAsserts: only the distance is asserted.
MoveAssertsDistanceOnly(sq, distance) == distance > 0

\* The two assertions of move_player.
MoveAsserts(sq, distance) == distance > 0 /\ ~ is_game_over(sq)

\* start + distance passes the largest usize.
MoveOverflows(sq, distance) == index_of_current_player(sq) + distance >= USIZE

\* The steps of move_player after its assertions, in a build where
\* start + distance wraps if it overflows: the token is popped and pushed onto
\* the stop square, and the slice squares[start + 1 .. stop + 1] panics when
\* its start is past its end, as it is after a wrapped sum.
MoveFrom(distance) ==
    LET start == index_of_current_player(squares)
        stop  == MoveStop(squares, start, distance)
        moved == MoveToken(squares, start, stop)
        range == (start + 1) .. stop
    IN  IF start + 1 > stop + 1
        THEN /\ squares' = moved
             /\ result' = Panic
             /\ UNCHANGED <<nplayers, crossings, granted>>
        ELSE /\ squares' = SweepSquares(moved, start, stop)
             /\ result' = MoveResult(SweepPieces(moved, start + 1, stop),
                                     SweepCollects(moved, start + 1, stop),
                                     stop - start)
             /\ crossings' = [i \in DOMAIN squares |->
                                 crossings[i] + (IF i \in range THEN 1 ELSE 0)]
             /\ granted' = [i \in DOMAIN squares |->
                                 granted[i] + (IF i \in range /\ moved[i].piece # None
                                               THEN 1 ELSE 0)]
             /\ UNCHANGED nplayers

\* TimeBoard::move_player. After the two assertions, start + distance panics
\* in a debug build when it overflows and wraps in a release build.
MovePlayer(distance) ==
    /\ result.status # "panic"
    /\ call' = [op |-> "move_player", arg |-> distance]
    /\ IF ~ MoveAsserts(squares, distance)
       THEN /\ result' = Panic
            /\ UNCHANGED trackVars
       ELSE IF MoveOverflows(squares, distance)
       THEN \E build \in Builds :
               IF build = "debug"
               THEN /\ result' = Panic
                    /\ UNCHANGED trackVars
               ELSE MoveFrom(distance)
       ELSE MoveFrom(distance)
    /\ UNCHANGED <<queueVars, quiltVars, built_piece>>

----------------------------------------------------------------------------
\* piece_board.rs: PieceBoardBuilder and PieceBoard.

DEFAULT_DEPTH == 2

\* The sample pieces of piece::examples the queue tests are built from.
QueuePieces == { piece1, piece2, piece3, piece4 }

RECURSIVE SeqsUpTo(_, _)
SeqsUpTo(S, n) ==
    IF n = 0 THEN { << >> }
    ELSE LET shorter == SeqsUpTo(S, n - 1)
         IN  shorter \cup { Append(s, x) : s \in { t \in shorter : Len(t) = n - 1 }, x \in S }

\* Range::new(0, i).ind_sample(rng) in piece_board's shuffle.
QueueShuffleRange(i) == 0 .. (i - 1)

RECURSIVE QueueShuffleFrom(_, _)
QueueShuffleFrom(vd, i) ==
    IF i < 1 THEN { vd }
    ELSE UNION { QueueShuffleFrom(Swap(vd, i + 1, j + 1), i - 1) :
                    j \in QueueShuffleRange(i) }

QueueShuffle(vd) == QueueShuffleFrom(vd, Len(vd) - 1)

\* PieceBoardBuilder::build and build_in_order: the queues they can produce.
PieceBoardBuild(pieces) == QueueShuffle(pieces)
PieceBoardBuildInOrder(pieces) == { pieces }

Ok(v) == [status |-> "ok", value |-> v]
Err(e) == [status |-> "err", error |-> e]

\* for _ in 0..depth { stack.push(self.piece_queue.pop_front().unwrap()) }
RECURSIVE PopFrontN(_, _, _)
PopFrontN(queue, stack, n) ==
    IF n = 0 THEN [queue |-> queue, stack |-> stack]
    ELSE PopFrontN(Tail(queue), Append(stack, Head(queue)), n - 1)

\* Mutant of PushFrontRev: the stack is pushed back without .rev().
RECURSIVE PushFrontFwd(_, _)
PushFrontFwd(queue, stack) ==
    IF stack = << >> THEN queue
    ELSE PushFrontFwd(<< Head(stack) >> \o queue, Tail(stack))

\* for piece in stack.into_iter().rev() { self.piece_queue.push_front(piece) }
RECURSIVE PushFrontRev(_, _)
PushFrontRev(queue, stack) ==
    IF stack = << >> THEN queue
    ELSE PushFrontRev(<< stack[Len(stack)] >> \o queue, SubSeq(stack, 1, Len(stack) - 1))

\* Mutant of IsOverDepth: taking at the configured depth is refused too.
IsOverDepthOrAt(d, max_depth) == d >= max_depth

\* The first test of take: depth > self.depth
IsOverDepth(d, max_depth) == d > max_depth

\* Mutant of IsOutOfPieces: the last element of the queue is refused too.
IsOutOfPiecesOrLast(d, queue) == d + 1 >= Len(queue)

\* The second test of take: depth >= self.piece_queue.len()
IsOutOfPieces(d, queue) == d >= Len(queue)

\* Mutant of TakeOutcome: the elements are popped before the length is known,
\* so a take beyond the end of the queue fails with the queue drained.
TakeOutcomeDraining(queue, max_depth, d) ==
    IF IsOverDepth(d, max_depth)
    THEN [result |-> Err("TakeOverDepth"), queue |-> queue]
    ELSE IF IsOutOfPieces(d, queue)
    THEN [result |-> Err("OutOfPieces"), queue |-> << >>]
    ELSE LET popped == PopFrontN(queue, << >>, d)
         IN  [result |-> Ok(Head(popped.queue)),
              queue |-> PushFrontRev(Tail(popped.queue), popped.stack)]

\* Mutant of TakeOutcome: the depth is counted from the back of the queue
\* (pop_back and push_back where the code has pop_front and push_front).
TakeOutcomeFromBack(queue, max_depth, d) ==
    IF IsOverDepth(d, max_depth)
    THEN [result |-> Err("TakeOverDepth"), queue |-> queue]
    ELSE IF IsOutOfPieces(d, queue)
    THEN [result |-> Err("OutOfPieces"), queue |-> queue]
    ELSE LET n == Len(queue)
             at == n - d
         IN  [result |-> Ok(queue[at]),
              queue |-> SubSeq(queue, 1, at - 1) \o SubSeq(queue, at + 1, n)]

\* PieceBoard::take: the value returned and the queue left.
TakeOutcome(queue, max_depth, d) ==
    IF IsOverDepth(d, max_depth)
    THEN [result |-> Err("TakeOverDepth"), queue |-> queue]
    ELSE IF IsOutOfPieces(d, queue)
    THEN [result |-> Err("OutOfPieces"), queue |-> queue]
    ELSE LET popped == PopFrontN(queue, << >>, d)
             taken  == Head(popped.queue)
             rest   == Tail(popped.queue)
         IN  [result |-> Ok(taken), queue |-> PushFrontRev(rest, popped.stack)]

\* The depths take is called with: within and beyond the depth and the queue.
TakeArgs == 0 .. (MaxQueue + 1)

Take(d) ==
    /\ result.status # "panic"
    /\ call' = [op |-> "take", arg |-> d]
    /\ LET out == TakeOutcome(piece_queue, depth, d)
       IN  /\ result' = out.result
           /\ piece_queue' = out.queue
           /\ ntaken' = IF out.result.status = "ok" THEN ntaken + 1 ELSE ntaken
    /\ UNCHANGED <<depth, given, trackVars, quiltVars, built_piece>>

----------------------------------------------------------------------------
\* quilt_board.rs: QuiltBoard. rows[y][x] tells whether the cell at column x
\* of row y is covered.

DEFAULT_DIMENSION == 9

\* The value of Ok(()).
Unit == << >>

\* QuiltBoard::new
QuiltBoardNew(d) ==
    [dimension |-> d,
     rows      |-> [y \in 0 .. d.height - 1 |-> [x \in 0 .. d.width - 1 |-> FALSE]]]

\* The positions inside a dimension.
Cells(d) == { Position(x, y) : x \in 0 .. d.width - 1, y \in 0 .. d.height - 1 }

\* QuiltBoard::is_position_in_bounds
is_position_in_bounds(b, position) == contains(b.dimension, position)

\* QuiltBoard::is_position_covered
is_position_covered(b, position) ==
    is_position_in_bounds(b, position) /\ b.rows[position.y][position.x]

\* The inner loop of positions_covered over the cells of a row from x on.
RECURSIVE CountRowFrom(_, _, _)
CountRowFrom(row, x, width) ==
    IF x >= width THEN 0
    ELSE (IF row[x] THEN 1 ELSE 0) + CountRowFrom(row, x + 1, width)

\* The outer loop of positions_covered over the rows from y on.
RECURSIVE CountRowsFrom(_, _)
CountRowsFrom(b, y) ==
    IF y >= b.dimension.height THEN 0
    ELSE CountRowFrom(b.rows[y], 0, b.dimension.width) + CountRowsFrom(b, y + 1)

\* Mutant of positions_covered: a row counts once, however many of its
\* cells are covered.
PositionsCoveredRows(b) ==
    Cardinality({ y \in 0 .. b.dimension.height - 1 :
                    \E x \in 0 .. b.dimension.width - 1 : b.rows[y][x] })

\* QuiltBoard::positions_covered
positions_covered(b) == CountRowsFrom(b, 0)

\* Mutant of is_square_covered_at: the test of the cell is inverted, so the
\* square has to be free.
IsSquareFreeAt(b, position, size) ==
    \A y \in position.y .. wrapping_add(position.y, size) - 1 :
        \A x \in position.x .. wrapping_add(position.x, size) - 1 :
            ~ is_position_covered(b, Position(x, y))

\* QuiltBoard::is_square_covered_at: the loops run from position to
\* position + size, a sum that wraps when it passes the largest usize.
is_square_covered_at(b, position, size) ==
    \A y \in position.y .. wrapping_add(position.y, size) - 1 :
        \A x \in position.x .. wrapping_add(position.x, size) - 1 :
            is_position_covered(b, Position(x, y))

\* QuiltBoard::is_square_covered in the given build. height - size is the
\* first thing computed, and width - size is computed when the loop over y
\* has a first round; either panics in a debug build when size is the larger
\* and wraps in a release build.
is_square_covered(b, size, build) ==
    LET height == b.dimension.height
        width  == b.dimension.width
    IN  IF build = "debug" /\ (size > height \/ size > width)
        THEN Panic
        ELSE Ok(\E y \in 0 .. wrapping_add(wrapping_sub(height, size), 1) - 1 :
                   \E x \in 0 .. wrapping_add(wrapping_sub(width, size), 1) - 1 :
                       is_square_covered_at(b, Position(x, y), size))

\* Mutant of CellViolation: the bottom edge is tested before the right edge.
CellViolationBottomFirst(b, p) ==
    IF p.y >= b.dimension.height THEN Some("PlacementOverhangsBottom")
    ELSE IF p.x >= b.dimension.width THEN Some("PlacementOverhangsRight")
    ELSE IF is_position_covered(b, p) THEN Some("PlacementOverlapsPiece")
    ELSE None

\* The body of the loop of can_add_piece: what is wrong with one translated
\* cell, if anything.
CellViolation(b, p) ==
    IF p.x >= b.dimension.width THEN Some("PlacementOverhangsRight")
    ELSE IF p.y >= b.dimension.height THEN Some("PlacementOverhangsBottom")
    ELSE IF is_position_covered(b, p) THEN Some("PlacementOverlapsPiece")
    ELSE None

\* The loop of can_add_piece from the k-th transformed position on, in the
\* given build: p.translate(position) panics in a debug build when a sum
\* overflows.
RECURSIVE CanAddFrom(_, _, _, _, _)
CanAddFrom(b, position, ps, k, build) ==
    IF k > Len(ps) THEN Ok(Unit)
    ELSE IF build = "debug" /\ TranslateOverflows(ps[k], position) THEN Panic
    ELSE LET v == CellViolation(b, translate(ps[k], position))
         IN  IF v # None THEN Err(v[1])
             ELSE CanAddFrom(b, position, ps, k + 1, build)

\* QuiltBoard::can_add_piece
can_add_piece(b, position, piece, t, build) ==
    CanAddFrom(b, position, PiecePositions(piece, t), 1, build)

\* self.rows[position.y + p.y][position.x + p.x] = true; the sums are those
\* that can_add_piece has computed, wrapped where it wrapped them.
MarkCell(b, position, p) ==
    [b EXCEPT !.rows[wrapping_add(position.y, p.y)][wrapping_add(position.x, p.x)] = TRUE]

\* The second loop of add_piece from the k-th transformed position on.
RECURSIVE MarkFrom(_, _, _, _)
MarkFrom(b, position, ps, k) ==
    IF k > Len(ps) THEN b
    ELSE MarkFrom(MarkCell(b, position, ps[k]), position, ps, k + 1)

\* Mutant of AddPieceOutcome: one loop that validates a cell and marks it at
\* once, so that a failing placement leaves the cells before the failing one
\* marked.
RECURSIVE AddPieceInterleavedFrom(_, _, _, _, _)
AddPieceInterleavedFrom(b, position, ps, k, build) ==
    IF k > Len(ps) THEN [result |-> Ok(Unit), board |-> b]
    ELSE IF build = "debug" /\ TranslateOverflows(ps[k], position)
    THEN [result |-> Panic, board |-> b]
    ELSE LET v == CellViolation(b, translate(ps[k], position))
         IN  IF v # None THEN [result |-> Err(v[1]), board |-> b]
             ELSE AddPieceInterleavedFrom(MarkCell(b, position, ps[k]), position, ps,
                                          k + 1, build)

AddPieceInterleaved(b, position, piece, t, build) ==
    AddPieceInterleavedFrom(b, position, PiecePositions(piece, t), 1, build)

\* Mutant of AddPieceOutcome: the rows are built anew for the piece, so the
\* cells covered before are lost.
AddPieceOnFreshRows(b, position, piece, t, build) ==
    LET can == can_add_piece(b, position, piece, t, build)
    IN  IF can.status # "ok"
        THEN [result |-> can, board |-> b]
        ELSE [result |-> Ok(Unit),
              board  |-> MarkFrom(QuiltBoardNew(b.dimension), position,
                                  PiecePositions(piece, t), 1)]

\* QuiltBoard::add_piece: the value returned (or the panic of can_add_piece)
\* and the board left.
AddPieceOutcome(b, position, piece, t, build) ==
    LET can == can_add_piece(b, position, piece, t, build)
    IN  IF can.status # "ok"
        THEN [result |-> can, board |-> b]
        ELSE [result |-> Ok(Unit),
              board  |-> MarkFrom(b, position, PiecePositions(piece, t), 1)]

\* The pieces placed, the positions they are placed at and the sizes asked
\* about: inside the board, over its edges and beyond it.
QuiltPieces == { single_position, piece3, piece0 }
QuiltPositions ==
    { Position(x, y) : x \in 0 .. MaxBoard - 1, y \in 0 .. MaxBoard - 1 }
        \cup { Position(USIZE - 1, 0), Position(0, USIZE - 1) }
SquareSizes == 0 .. MaxBoard + 2

\* The caller has the result of the last call and is ready for the next.
Return ==
    /\ call # NoCall
    /\ result.status # "panic"
    /\ call' = NoCall
    /\ result' = NoResult
    /\ UNCHANGED <<trackVars, queueVars, quiltVars, built_piece>>

CanAddPiece(position, piece, t) ==
    /\ call = NoCall
    /\ call' = [op |-> "can_add_piece", position |-> position, piece |-> piece,
                transformation |-> t]
    /\ \E build \in Builds : result' = can_add_piece(board, position, piece, t, build)
    /\ UNCHANGED <<trackVars, queueVars, quiltVars, built_piece>>

AddPiece(position, piece, t) ==
    /\ call = NoCall
    /\ call' = [op |-> "add_piece", position |-> position, piece |-> piece,
                transformation |-> t]
    /\ \E build \in Builds :
          LET out == AddPieceOutcome(board, position, piece, t, build)
          IN  /\ result' = out.result
              /\ board' = out.board
              /\ placed_size' = IF out.result.status = "ok"
                                THEN placed_size + PieceSize(piece)
                                ELSE placed_size
    /\ UNCHANGED <<trackVars, queueVars, built_piece>>

IsSquareCovered(size) ==
    /\ call = NoCall
    /\ call' = [op |-> "is_square_covered", size |-> size]
    /\ \E build \in Builds : result' = is_square_covered(board, size, build)
    /\ UNCHANGED <<trackVars, queueVars, quiltVars, built_piece>>

\* game_state.rs: GameState.

DEFAULT_NPLAYERS == 2

\* Mutant of GameIsGameOverValue: the game is over only when both the track
\* is finished and the queue is empty.
GameIsGameOverBoth(sq, queue) == is_game_over(sq) /\ queue = << >>

\* PieceBoard::is_empty
PieceBoardIsEmpty(queue) == Len(queue) = 0

\* GameState::is_game_over
GameIsGameOverValue(sq, queue) == is_game_over(sq) \/ PieceBoardIsEmpty(queue)

GameIsGameOver ==
    /\ result.status # "panic"
    /\ call' = [op |-> "game_is_game_over"]
    /\ result' = Ok(GameIsGameOverValue(squares, piece_queue))
    /\ UNCHANGED <<trackVars, queueVars, quiltVars, built_piece>>

\* PlayOrder::new and PieceBoardBuilder::build, called on their own: each
\* returns one of the vectors its shuffle can leave.
NewPlayOrder(n) ==
    /\ call = NoCall
    /\ call' = [op |-> "play_order_new", nplayers |-> n]
    /\ \E order \in PlayOrderNew(n) : result' = Ok(order)
    /\ UNCHANGED <<trackVars, queueVars, quiltVars, built_piece>>

BuildQueue(pieces) ==
    /\ call = NoCall
    /\ call' = [op |-> "build", pieces |-> pieces]
    /\ \E queue \in PieceBoardBuild(pieces) : result' = Ok(queue)
    /\ UNCHANGED <<trackVars, queueVars, quiltVars, built_piece>>

\* Piece::new and Piece::positions, called on their own.
PositionInputs ==
    { Position(x, y) : x \in 0 .. MaxCoordinate, y \in 0 .. MaxCoordinate }
PositionLists == SeqsUpTo(PositionInputs, MaxCells)

\* Piece::new, called once, with the cost, distance and collect of piece0.
NewPiece(positions) ==
    /\ call = NoCall
    /\ built_piece = None
    /\ call' = [op |-> "new", positions |-> positions]
    /\ built_piece' = Some(PieceNew(positions, 2, 1, 0))
    /\ result' = Ok(PieceNew(positions, 2, 1, 0))
    /\ UNCHANGED <<trackVars, queueVars, quiltVars>>

Positions(t) ==
    /\ call = NoCall
    /\ built_piece # None
    /\ call' = [op |-> "positions", transformation |-> t]
    /\ LET out == PositionsOutcome(built_piece[1], t)
       IN  /\ result' = Ok(out.result)
           /\ built_piece' = Some(out.piece)
    /\ UNCHANGED <<trackVars, queueVars, quiltVars>>

\* Transformation::apply and Transformation::apply_dim, called on their own.
Dimensions == { Dimension(w, h) : w \in 0 .. MaxSide, h \in 0 .. MaxSide }

Apply(t, d, p) ==
    /\ call = NoCall
    /\ call' = [op |-> "apply", transformation |-> t, d |-> d, p |-> p]
    /\ result' = Ok(TransformationApply(t, d, p))
    /\ UNCHANGED <<trackVars, queueVars, quiltVars, built_piece>>

ApplyDim(t, d) ==
    /\ call = NoCall
    /\ call' = [op |-> "apply_dim", transformation |-> t, d |-> d]
    /\ result' = Ok(TransformationApplyDim(t, d))
    /\ UNCHANGED <<trackVars, queueVars, quiltVars, built_piece>>

\* The layouts a time board is built from, of every length up to MaxSquares.
AllLayouts == UNION { Layouts(n) : n \in 1 .. MaxSquares }

\* The distances passed to move_player: the small ones, and the largest usize.
MoveDistances == (0 .. MaxDistance) \cup { USIZE - 1 }

----------------------------------------------------------------------------
\* Specifications.

\* The parts of the state a specification does not exercise: the test track
\* with two players, an empty queue, a board without cells.
IdleTrack ==
    /\ squares = TimeBoardFromSlice(new_in_order(2), TEST_BOARD)
    /\ nplayers = 2
    /\ crossings = [i \in DOMAIN TEST_BOARD |-> 0]
    /\ granted = [i \in DOMAIN TEST_BOARD |-> 0]

IdleQueue ==
    /\ piece_queue = << >>
    /\ depth = DEFAULT_DEPTH
    /\ given = << >>
    /\ ntaken = 0

IdleBoard == board = QuiltBoardNew(Dimension(0, 0)) /\ placed_size = 0

IdlePiece == built_piece = None

\* A track built by TimeBoard::from_slice from a layout and the play order of
\* PlayOrder::new_in_order (the track never reads a player's number, so the
\* orders PlayOrder::new can give behave alike); the piece board is left empty.
InitTrack ==
    /\ \E n \in 1 .. MaxSquares, np \in 2 .. MaxPlayers :
         \E layout \in Layouts(n) :
              /\ squares = TimeBoardFromSlice(new_in_order(np), layout)
              /\ nplayers = np
              /\ crossings = [i \in 0 .. n - 1 |-> 0]
              /\ granted = [i \in 0 .. n - 1 |-> 0]
    /\ call = NoCall
    /\ result = NoResult
    /\ piece_queue = << >>
    /\ depth = DEFAULT_DEPTH
    /\ given = << >>
    /\ ntaken = 0
    /\ IdleBoard
    /\ IdlePiece

NextTrack == \E distance \in MoveDistances : MovePlayer(distance)

SpecTrack == InitTrack /\ [][NextTrack]_vars

\* The lists given to PieceBoardBuilder::extend: up to MaxQueue pieces, each
\* piece of the game at most once.
PieceLists ==
    { s \in SeqsUpTo(QueuePieces, MaxQueue) :
        \A i, j \in 1 .. Len(s) : s[i] = s[j] => i = j }

\* The time board from before it is built: from_slice is a call that can
\* panic, and the moves follow on the board it has built.
InitTrackBuild ==
    /\ squares = << >>
    /\ nplayers = 0
    /\ crossings = << >>
    /\ granted = << >>
    /\ call = NoCall
    /\ result = NoResult
    /\ IdleQueue
    /\ IdleBoard
    /\ IdlePiece

NextTrackBuild ==
    \/ \E n \in 0 .. MaxPlayers : GameBuilderNplayers(n)
    \/ squares = << >> /\ \E np \in 0 .. MaxPlayers, layout \in AllLayouts :
                            FromSlice(np, layout)
    \/ squares # << >> /\ \E distance \in MoveDistances : MovePlayer(distance)

SpecTrackBuild == InitTrackBuild /\ [][NextTrackBuild]_vars

\* A piece board built by PieceBoardBuilder::empty().depth(d).extend(pieces),
\* then build() or build_in_order(); the track is the test board with two players.
InitQueue ==
    /\ \E pieces \in PieceLists, d \in 0 .. MaxDepth :
         /\ piece_queue \in PieceBoardBuildInOrder(pieces) \cup PieceBoardBuild(pieces)
         /\ depth = d
         /\ given = pieces
    /\ ntaken = 0
    /\ call = NoCall
    /\ result = NoResult
    /\ squares = TimeBoardFromSlice(new_in_order(2), TEST_BOARD)
    /\ nplayers = 2
    /\ crossings = [i \in DOMAIN TEST_BOARD |-> 0]
    /\ granted = [i \in DOMAIN TEST_BOARD |-> 0]
    /\ IdleBoard
    /\ IdlePiece

NextQueue == \E d \in TakeArgs : Take(d)

SpecQueue == InitQueue /\ [][NextQueue]_vars

\* An empty quilt board of QuiltBoard::new, of any width and height up to
\* MaxBoard.
InitQuilt ==
    /\ \E w \in 1 .. MaxBoard, h \in 1 .. MaxBoard :
         board = QuiltBoardNew(Dimension(w, h))
    /\ placed_size = 0
    /\ call = NoCall
    /\ result = NoResult
    /\ IdleTrack
    /\ IdleQueue
    /\ IdlePiece

NextQuilt ==
    \/ \E position \in QuiltPositions, piece \in QuiltPieces, t \in Transformations :
         \/ CanAddPiece(position, piece, t)
         \/ AddPiece(position, piece, t)
    \/ \E size \in SquareSizes : IsSquareCovered(size)
    \/ Return

SpecQuilt == InitQuilt /\ [][NextQuilt]_vars

\* Transformations applied to the positions of a dimension.
InitGeometry ==
    /\ call = NoCall
    /\ result = NoResult
    /\ IdleTrack
    /\ IdleQueue
    /\ IdleBoard
    /\ IdlePiece

NextGeometry ==
    \/ \E t \in Transformations, d \in Dimensions :
         \/ \E p \in Cells(d) : Apply(t, d, p)
         \/ ApplyDim(t, d)
    \/ Return

SpecGeometry == InitGeometry /\ [][NextGeometry]_vars

\* A game of GameBuilder::empty() with a piece list, built by build (shuffled)
\* or build_in_order: the default number of players, the piece board of the
\* builder's piece list with the default depth, and the time board of
\* a layout of plain squares with the play order on square 0. (The
\* TimeBoardBuilder the game uses is not among the sources; the time board
\* is built as TimeBoard::from_slice builds it.)
PlainLayout(n) == [i \in 0 .. n - 1 |-> Square(None, FALSE, << >>)]

\* The piece lists of a game: the first pieces of piece1 .. piece4.
GamePieceLists ==
    { SubSeq(<< piece1, piece2, piece3, piece4 >>, 1, k) : k \in 0 .. Min(MaxGamePieces, 4) }

InitGame ==
    /\ \E np \in { DEFAULT_NPLAYERS }, n \in 1 .. MaxSquares, pieces \in GamePieceLists,
          shuffle \in BOOLEAN :
         /\ piece_queue \in (IF shuffle THEN PieceBoardBuild(pieces)
                                       ELSE PieceBoardBuildInOrder(pieces))
         /\ given = pieces
         /\ \E play_order \in (IF shuffle THEN PlayOrderNew(np)
                                           ELSE { new_in_order(np) }) :
               squares = TimeBoardFromSlice(play_order, PlainLayout(n))
         /\ nplayers = np
         /\ crossings = [i \in 0 .. n - 1 |-> 0]
         /\ granted = [i \in 0 .. n - 1 |-> 0]
    /\ depth = DEFAULT_DEPTH
    /\ ntaken = 0
    /\ call = NoCall
    /\ result = NoResult
    /\ IdleBoard
    /\ IdlePiece

Next ==
    \/ \E distance \in MoveDistances : MovePlayer(distance)
    \/ \E d \in TakeArgs : Take(d)
    \/ GameIsGameOver

Spec == InitGame /\ [][Next]_vars

\* Play orders and piece queues built with a shuffle.
InitShuffle ==
    /\ call = NoCall
    /\ result = NoResult
    /\ IdleTrack
    /\ IdleQueue
    /\ IdleBoard
    /\ IdlePiece

NextShuffle ==
    \/ \E n \in 1 .. MaxPlayers : NewPlayOrder(n)
    \/ \E pieces \in PieceLists : BuildQueue(pieces)
    \/ Return

SpecShuffle == InitShuffle /\ [][NextShuffle]_vars

\* A piece built by Piece::new from a list of positions, then asked for its
\* positions under each transformation.
InitPiece ==
    /\ call = NoCall
    /\ result = NoResult
    /\ IdleTrack
    /\ IdleQueue
    /\ IdleBoard
    /\ IdlePiece

NextPiece ==
    \/ \E positions \in PositionLists : NewPiece(positions)
    \/ \E t \in Transformations : Positions(t)
    \/ Return

SpecPiece == InitPiece /\ [][NextPiece]_vars

----------------------------------------------------------------------------
\* Vocabulary of the properties, stated on the track itself.

Occupied(sq) == { i \in DOMAIN sq : sq[i].players # << >> }

\* The lowest-index square that holds a token.
LowestOccupied(sq) == CHOOSE i \in Occupied(sq) : \A j \in Occupied(sq) : i <= j

LastIndex(sq) == CHOOSE i \in DOMAIN sq : \A j \in DOMAIN sq : j <= i

TopToken(sq, i) == sq[i].players[Len(sq[i].players)]

\* How many times player p's token lies on square i.
TokensOn(sq, i, p) == Cardinality({ k \in DOMAIN sq[i].players : sq[i].players[k] = p })

RECURSIVE SumOver(_, _)
SumOver(f, S) ==
    IF S = {} THEN 0
    ELSE LET x == CHOOSE y \in S : TRUE IN f[x] + SumOver(f, S \ { x })

\* How many times player p's token lies on the track.
TokenCount(sq, p) == SumOver([i \in DOMAIN sq |-> TokensOn(sq, i, p)], DOMAIN sq)

\* The number of tokens on the track.
TotalTokens(sq) == SumOver([i \in DOMAIN sq |-> Len(sq[i].players)], DOMAIN sq)

\* The square player p's token lies on.
SquareOf(sq, p) == CHOOSE i \in DOMAIN sq : TokensOn(sq, i, p) > 0

\* This step is a call of move_player that returned.
Moved == call'.op = "move_player" /\ result'.status = "ok"

\* The range (start, stop] the claims speak of, for a step that is a move.
StartOfMove == LowestOccupied(squares)
StopOfMove ==
    IF StartOfMove + call'.arg <= LastIndex(squares)
    THEN StartOfMove + call'.arg
    ELSE LastIndex(squares)
RangeOfMove == { i \in DOMAIN squares : StartOfMove < i /\ i <= StopOfMove }

----------------------------------------------------------------------------
C2_PieceGrantedOnce ==
    /\ [](\A i \in DOMAIN squares :
            /\ granted[i] <= 1
            /\ crossings[i] >= 1 => squares[i].piece = None)
    /\ [][ Moved =>
             /\ Len(result'.pieces) =
                   Cardinality({ i \in RangeOfMove : squares[i].piece # None })
             /\ \A k \in DOMAIN result'.pieces :
                   \E i \in RangeOfMove : squares[i].piece = Some(result'.pieces[k])
             /\ \A i \in RangeOfMove : squares'[i].piece = None
         ]_vars

\* A square's piece was handed out once and the square was crossed again.
C2_Witness ==
    \E i \in DOMAIN squares : granted[i] = 1 /\ crossings[i] >= 2

\* C3: every move returns as collects the number of collect squares in
\* (start, stop], whatever crossed them before, and no call changes a flag.
C3_CollectsPersist ==
    [][ /\ DOMAIN squares' = DOMAIN squares
        /\ \A i \in DOMAIN squares : squares'[i].collect = squares[i].collect
        /\ Moved =>
             result'.collects = Cardinality({ i \in RangeOfMove : squares[i].collect })
      ]_vars

\* A move was paid for a collect square that an earlier move had crossed:
\* every square behind the first has been crossed twice.
C3_Witness ==
    /\ call.op = "move_player" /\ result.status = "ok"
    /\ result.collects >= 1
    /\ NumSquares(squares) >= 2
    /\ \A i \in DOMAIN squares : i >= 1 => crossings[i] >= 2

\* C4: the tokens on the track are exactly the n players, each once.
C4_TokensArePlayers ==
    /\ TotalTokens(squares) = nplayers
    /\ \A p \in 0 .. nplayers - 1 : TokenCount(squares, p) = 1

\* Every token has moved, and the tokens lie on more than one square.
C4_Witness ==
    /\ squares[0].players = << >>
    /\ Cardinality(Occupied(squares)) >= 2
    /\ nplayers >= 3

\* C5: current_player() is the top token of the lowest occupied square, and
\* None exactly when that square is the last one; the token a move takes is
\* the current player's, and no token lies behind it.
C5_CurrentPlayerIsFurthestBehind ==
    /\ [](LET low == LowestOccupied(squares)
          IN  /\ (current_player(squares) = None) <=> (low = LastIndex(squares))
              /\ low # LastIndex(squares) =>
                    current_player(squares) = Some(TopToken(squares, low)))
    /\ [][ Moved =>
             \A p \in 0 .. nplayers - 1 :
                SquareOf(squares', p) # SquareOf(squares, p) =>
                    /\ current_player(squares) = Some(p)
                    /\ \A q \in 0 .. nplayers - 1 :
                          SquareOf(squares, p) <= SquareOf(squares, q)
         ]_vars

\* After a move, the lowest occupied square is behind the last one and holds
\* two different tokens, the upper of which is the current player.
C5_Witness ==
    /\ call.op = "move_player" /\ result.status = "ok"
    /\ LET low == LowestOccupied(squares)
       IN  /\ 0 < low /\ low < LastIndex(squares)
           /\ Len(squares[low].players) >= 2
           /\ current_player(squares) = Some(TopToken(squares, low))

\* C6: index_of_next_player() is the current player's square when that square
\* holds more than one token, and then the token under the top one is current
\* after the move; otherwise it is the lowest occupied square above.
C6_NextPlayerIndex ==
    /\ [](LET low   == LowestOccupied(squares)
              above == { i \in Occupied(squares) : i > low }
          IN  IF Len(squares[low].players) > 1
              THEN index_of_next_player(squares) = low
              ELSE /\ index_of_next_player(squares) \in above
                   /\ \A i \in above : index_of_next_player(squares) <= i)
    /\ [][ (Moved /\ Len(squares[StartOfMove].players) > 1) =>
              current_player(squares') =
                 Some(squares[StartOfMove].players[Len(squares[StartOfMove].players) - 1])
         ]_vars

\* The current player is alone on its square and two squares above it are
\* occupied.
C6_Witness ==
    LET low == LowestOccupied(squares)
    IN  /\ Len(squares[low].players) = 1
        /\ Cardinality({ i \in Occupied(squares) : i > low }) >= 2

\* C7: is_game_over() is true iff every token is on the last square; it
\* becomes true at the move that lands the last token short of the last
\* square on it, and stays true.
C7_GameOverIffAllOnLast ==
    /\ [](is_game_over(squares) <=>
            (\A i \in DOMAIN squares :
                squares[i].players # << >> => i = LastIndex(squares)))
    /\ [][ /\ is_game_over(squares) => is_game_over(squares')
           /\ (~ is_game_over(squares) /\ is_game_over(squares')) =>
                 /\ Moved
                 /\ StopOfMove = LastIndex(squares)
                 /\ Len(squares[LastIndex(squares)].players) = nplayers - 1
         ]_vars

\* A game that was not over at the start has been ended by a move.
C7_Witness ==
    /\ call.op = "move_player" /\ result.status = "ok"
    /\ is_game_over(squares)
    /\ nplayers >= 3
    /\ NumSquares(squares) >= 3

\* C8: with n the value of index_of_next_player() before a move that lands on
\* stop, short of the last square, the mover is still the current player after
\* the move iff stop <= n.
C8_TurnPassesWhenNextPlayerIsPassed ==
    [][ (Moved /\ StopOfMove # LastIndex(squares)) =>
          ((current_player(squares') = current_player(squares))
              <=> (StopOfMove <= index_of_next_player(squares)))
      ]_vars

\* A move landed on the next player's square, short of the last one, and the
\* mover is current again, on top of the token that was there.
C8_Witness ==
    /\ call.op = "move_player" /\ result.status = "ok"
    /\ LET low == LowestOccupied(squares)
       IN  /\ 0 < low /\ low < LastIndex(squares)
           /\ Len(squares[low].players) = 2
    /\ nplayers = 2

----------------------------------------------------------------------------
\* Vocabulary of the properties of the piece queue.

\* This step is a call of take.
TakeCalled == call'.op = "take"

\* The sequence s without its element at 0-based index d.
WithoutIndex(s, d) ==
    [k \in 1 .. Len(s) - 1 |-> IF k <= d THEN s[k] ELSE s[k + 1]]

\* C9: a take(d) that succeeds returns the element at index d of the queue and
\* leaves the queue without exactly that element: the d elements in front of
\* it and the elements behind it keep their places in order, and the queue is
\* one shorter.
C9_TakeRemovesIndex ==
    [][ (TakeCalled /\ result'.status = "ok") =>
          /\ call'.arg < Len(piece_queue)
          /\ result'.value = piece_queue[call'.arg + 1]
          /\ Len(piece_queue') = Len(piece_queue) - 1
          /\ \A k \in 1 .. call'.arg : piece_queue'[k] = piece_queue[k]
          /\ \A k \in call'.arg + 1 .. Len(piece_queue') :
                piece_queue'[k] = piece_queue[k + 1]
          /\ piece_queue' = WithoutIndex(piece_queue, call'.arg)
      ]_vars

\* take(2) has returned the third of four different pieces: two different
\* pieces stay in front of the gap and one behind it.
C9_Witness ==
    /\ call.op = "take" /\ call.arg = 2 /\ result.status = "ok"
    /\ Len(piece_queue) = 3
    /\ Cardinality({ piece_queue[k] : k \in 1 .. 3 } \cup { result.value }) = 4

\* C10: take(d) fails with TakeOverDepth iff d is greater than the configured
\* depth, whatever the length of the queue; in particular a d beyond both the
\* depth and the end of the queue reports TakeOverDepth, and not OutOfPieces.
C10_TakeOverDepthIffOverDepth ==
    [][ TakeCalled =>
          /\ (result' = Err("TakeOverDepth")) <=> (call'.arg > depth)
          /\ (call'.arg > depth /\ call'.arg >= Len(piece_queue)) =>
                result' # Err("OutOfPieces")
      ]_vars

\* take was refused with TakeOverDepth at the depth just over the configured
\* one, which is also beyond the end of a queue that is not empty.
C10_Witness ==
    /\ call.op = "take" /\ result = Err("TakeOverDepth")
    /\ call.arg >= Len(piece_queue)
    /\ call.arg = depth + 1
    /\ Len(piece_queue) >= 1

\* C11: a take(d) with d within the configured depth fails with OutOfPieces
\* iff d is no index of the queue (d >= its length), and succeeds otherwise.
C11_OutOfPiecesIffNoIndex ==
    [][ (TakeCalled /\ call'.arg <= depth) =>
          /\ (result' = Err("OutOfPieces")) <=> (call'.arg >= Len(piece_queue))
          /\ (result'.status = "ok") <=> (call'.arg < Len(piece_queue))
      ]_vars

\* A take within the configured depth has failed with OutOfPieces at the
\* first depth that is no index of a queue that is not empty.
C11_Witness ==
    /\ call.op = "take" /\ result = Err("OutOfPieces")
    /\ call.arg <= depth
    /\ call.arg = Len(piece_queue)
    /\ Len(piece_queue) >= 1

\* C12: a take that fails leaves the queue, its order and the configured
\* depth as they were.
C12_FailedTakeChangesNothing ==
    [][ (TakeCalled /\ result'.status = "err") =>
          /\ piece_queue' = piece_queue
          /\ depth' = depth
      ]_vars

\* A take has failed with OutOfPieces on a queue that holds two different
\* pieces, which are both still there in their order.
C12_Witness ==
    /\ call.op = "take" /\ result.status = "err"
    /\ result.error = "OutOfPieces"
    /\ Len(piece_queue) = 2
    /\ piece_queue[1] # piece_queue[2]

\* The queue holds the pieces of the given list from index ntaken + 1 on, in
\* the list's order: the state of an in-order queue after ntaken takes at 0.
RestOfGiven ==
    /\ ntaken < Len(given)
    /\ piece_queue = SubSeq(given, ntaken + 1, Len(given))

\* C13: on a queue built in order from a list of k pieces, take(0) after
\* take(0) returns the pieces in the list's order; whatever the depths, every
\* successful take shortens the queue by one, so after k of them the queue is
\* empty; and from then on every take within the depth fails with OutOfPieces.
C13_TakeAllInOrder ==
    /\ [](Len(piece_queue) + ntaken = Len(given))
    /\ [][ TakeCalled =>
             /\ (call'.arg = 0 /\ RestOfGiven) =>
                   /\ result' = Ok(given[ntaken + 1])
                   /\ piece_queue' = SubSeq(given, ntaken + 2, Len(given))
             /\ (ntaken = Len(given) /\ call'.arg <= depth) =>
                   /\ piece_queue = << >>
                   /\ result' = Err("OutOfPieces")
                   /\ ntaken' = ntaken
         ]_vars

\* The queue built in order from piece1 .. piece4 has given all four pieces
\* and the take(0) after them has failed with OutOfPieces.
C13_Witness ==
    /\ given = << piece1, piece2, piece3, piece4 >>
    /\ ntaken = 4
    /\ piece_queue = << >>
    /\ call.op = "take" /\ call.arg = 0
    /\ result = Err("OutOfPieces")

----------------------------------------------------------------------------
\* The vocabulary of the claims about the quilt board.

\* The cell is inside the board and covered.
Covered(b, c) == c \in Cells(b.dimension) /\ b.rows[c.y][c.x]

\* The cell of the board that the k-th stored position of the piece falls on
\* when the piece is transformed by t and put at the position.
PlacedCell(position, piece, t, k) ==
    LET q == TransformationApply(t, piece.dimension, piece.positions[k])
    IN  Position(position.x + q.x, position.y + q.y)

PlacedCells(position, piece, t) ==
    { PlacedCell(position, piece, t, k) : k \in 1 .. Len(piece.positions) }

OverhangsRight(b, c) == c.x >= b.dimension.width
OverhangsBottom(b, c) == c.y >= b.dimension.height
Fails(b, c) == OverhangsRight(b, c) \/ OverhangsBottom(b, c) \/ Covered(b, c)

\* The indices of the stored positions whose cell cannot be taken.
FailingIndices(b, position, piece, t) ==
    { k \in 1 .. Len(piece.positions) : Fails(b, PlacedCell(position, piece, t, k)) }

FirstFailing(b, position, piece, t) ==
    CHOOSE k \in FailingIndices(b, position, piece, t) :
        \A j \in FailingIndices(b, position, piece, t) : k <= j

\* The error that names what is wrong with one cell: the right edge before
\* the bottom edge before an overlap.
ViolationOf(b, c) ==
    IF OverhangsRight(b, c) THEN "PlacementOverhangsRight"
    ELSE IF OverhangsBottom(b, c) THEN "PlacementOverhangsBottom"
    ELSE "PlacementOverlapsPiece"

\* The verdict on a placement: that of its first failing cell in stored order.
Verdict(b, position, piece, t) ==
    IF FailingIndices(b, position, piece, t) = {}
    THEN Ok(Unit)
    ELSE Err(ViolationOf(b, PlacedCell(position, piece, t,
                                       FirstFailing(b, position, piece, t))))

\* Some size x size square of cells inside the board is covered all over.
ExistsCoveredSquare(b, size) ==
    \E x \in 0 .. b.dimension.width - size, y \in 0 .. b.dimension.height - size :
        \A dx \in 0 .. size - 1, dy \in 0 .. size - 1 :
            Covered(b, Position(x + dx, y + dy))

AddCalled == call'.op = "add_piece"

\* C14: can_add_piece reports what is wrong with the first failing cell in
\* the piece's stored order (the order before the transformation), and of
\* that cell the right overhang before the bottom overhang before the overlap;
\* it returns Ok when no cell fails.
C14_FirstFailingCellDecides ==
    call.op = "can_add_piece" =>
        result = Verdict(board, call.position, call.piece, call.transformation)

\* C15: add_piece validates, then commits: a placement can_add_piece refuses
\* fails with that same error and leaves the board as it was; one it accepts
\* returns Ok, covers every cell of the placed piece and changes no other cell.
C15_ValidateThenCommit ==
    [][ AddCalled =>
          \E build \in Builds :
          LET can == can_add_piece(board, call'.position, call'.piece,
                                   call'.transformation, build)
              placed == PlacedCells(call'.position, call'.piece, call'.transformation)
          IN  /\ can.status # "ok" => (result' = can /\ board' = board)
              /\ can.status = "ok" =>
                    /\ result' = Ok(Unit)
                    /\ board'.dimension = board.dimension
                    /\ \A c \in Cells(board.dimension) :
                          Covered(board', c) <=> (Covered(board, c) \/ c \in placed)
      ]_vars

\* add_piece has refused a piece whose first cells in stored order were free
\* and inside the board, and those cells are still not covered.
C15_Witness ==
    /\ call.op = "add_piece"
    /\ result.status = "err"
    /\ FirstFailing(board, call.position, call.piece, call.transformation) >= 2
    /\ ~ Covered(board, PlacedCell(call.position, call.piece, call.transformation, 1))
    /\ positions_covered(board) >= 1

\* The rows of the board are as many as its height and each as long as its
\* width.
RowsFitDimension(b) ==
    /\ DOMAIN b.rows = 0 .. b.dimension.height - 1
    /\ \A y \in DOMAIN b.rows : DOMAIN b.rows[y] = 0 .. b.dimension.width - 1

\* C16: over any sequence of calls the board only grows: a covered cell stays
\* covered, the dimension never changes, and the rows keep the height and the
\* width of the dimension.
C16_BoardOnlyGrows ==
    /\ [] RowsFitDimension(board)
    /\ [][ /\ board'.dimension = board.dimension
           /\ \A c \in Cells(board.dimension) : Covered(board, c) => Covered(board', c)
         ]_vars

\* add_piece has put a piece on a board that held another piece already.
C16_Witness ==
    /\ call.op = "add_piece"
    /\ result = Ok(Unit)
    /\ positions_covered(board) > Len(call.piece.positions)

\* C17: for every size >= 1, sizes larger than the board included,
\* is_square_covered(size) returns true iff some size x size square inside
\* the board is covered all over; so it returns false for a size larger than
\* the width or the height.
C17_SquareCoveredForEverySize ==
    (call.op = "is_square_covered" /\ call.size >= 1) =>
        result = Ok(ExistsCoveredSquare(board, call.size))

\* C18: is_square_covered is monotone in the size: once it has returned false
\* for a size, it returns false for every larger size, those that do not fit
\* the board included.
C18_NoLargerSquareEither ==
    (call.op = "is_square_covered" /\ result = Ok(FALSE)) =>
        \A n \in SquareSizes, build \in Builds :
            n > call.size => is_square_covered(board, n, build) = Ok(FALSE)

----------------------------------------------------------------------------
\* The vocabulary of the claims about transformations.

\* The rotation of a position of a w x h dimension, as a formula.
Rotated(r, w, h, x, y) ==
    CASE r = "NoRotation"   -> Position(x, y)
      [] r = "Clockwise90"  -> Position(h - y - 1, x)
      [] r = "Clockwise180" -> Position(w - x - 1, h - y - 1)
      [] r = "Clockwise270" -> Position(y, w - x - 1)

\* The width of a w x h dimension once rotated.
RotatedWidth(r, w, h) == IF r \in { "Clockwise90", "Clockwise270" } THEN h ELSE w

\* C19: for each of the eight transformations T and every dimension d, the
\* map p -> T.apply(d, p) on the cells of d is one-to-one and its image is
\* the set of cells of T.apply_dim(d).
C19_ApplyIsBijection ==
    call.op = "apply" =>
        LET t == call.transformation
            d == call.d
            target == Cells(TransformationApplyDim(t, d))
        IN  /\ result.value \in target
            /\ \A p, q \in Cells(d) :
                  TransformationApply(t, d, p) = TransformationApply(t, d, q) => p = q
            /\ { TransformationApply(t, d, p) : p \in Cells(d) } = target

\* A position of a dimension that is wider than high has been rotated by 90
\* degrees and flipped, and has moved.
C19_Witness ==
    /\ call.op = "apply"
    /\ call.transformation = Transformation("Clockwise90", "Horizontal")
    /\ call.d.width > call.d.height
    /\ call.d.height >= 2
    /\ result.status = "ok"
    /\ result.value # call.p

\* C20: Transformation::apply is the rotation -- (x, y), (h - y - 1, x),
\* (w - x - 1, h - y - 1), (y, w - x - 1) for 0, 90, 180, 270 degrees in a
\* w x h dimension -- followed by the flip, which for Horizontal sends x to
\* W - x - 1 with W the width of the rotated dimension; apply_dim swaps width
\* and height exactly for 90 and 270 degrees, whatever the flip.
C20_RotationThenFlip ==
    /\ call.op = "apply" =>
          LET r == call.transformation.rotation
              w == call.d.width
              h == call.d.height
              rotated == Rotated(r, w, h, call.p.x, call.p.y)
          IN  result = Ok(IF call.transformation.flip = "Horizontal"
                          THEN Position(RotatedWidth(r, w, h) - rotated.x - 1, rotated.y)
                          ELSE rotated)
    /\ call.op = "apply_dim" =>
          result = Ok(IF call.transformation.rotation \in { "Clockwise90", "Clockwise270" }
                      THEN Dimension(call.d.height, call.d.width)
                      ELSE call.d)

\* The lower right cell of a 3 x 2 dimension, rotated by 270 degrees and
\* flipped, has come to the upper left cell of the 2 x 3 dimension.
C20_Witness ==
    /\ call.op = "apply"
    /\ call.transformation = Transformation("Clockwise270", "Horizontal")
    /\ call.d = Dimension(3, 2)
    /\ call.p = Position(2, 1)
    /\ result = Ok(Position(0, 0))

\* C21: the identity transformation changes nothing: apply(d, p) = p and
\* apply_dim(d) = d for every dimension d and position p.
C21_IdentityIsNoOp ==
    /\ (call.op = "apply" /\ call.transformation = TransformationIdentity) =>
          result = Ok(call.p)
    /\ (call.op = "apply_dim" /\ call.transformation = TransformationIdentity) =>
          result = Ok(call.d)

\* The identity transformation has been applied to the lower right position
\* of a dimension that is wider than high.
C21_Witness ==
    /\ call.op = "apply"
    /\ call.transformation = TransformationIdentity
    /\ call.d.width > call.d.height
    /\ call.p = Position(call.d.width - 1, call.d.height - 1)
    /\ call.p.y >= 1
    /\ result = Ok(call.p)

----------------------------------------------------------------------------
\* The vocabulary of the claims about pieces.

\* The elements of a sequence.
Range(s) == { s[k] : k \in DOMAIN s }

\* A sequence backwards.
Reversed(s) == [k \in 1 .. Len(s) |-> s[Len(s) + 1 - k]]

\* The largest of a set of naturals, 0 for the empty set.
Largest(S) == IF S = {} THEN 0 ELSE CHOOSE m \in S : \A n \in S : n <= m

\* C22: for every piece P of Piece::new and every transformation T,
\* P.positions(T) yields exactly P.size() positions, no two of them equal,
\* each with x < P.width(T) and y < P.height(T).
C22_PositionsFillTransformedBox ==
    call.op = "positions" =>
        LET P == built_piece[1]
            T == call.transformation
            yielded == result.value
        IN  /\ Len(yielded) = PieceSize(P)
            /\ \A i, j \in DOMAIN yielded : yielded[i] = yielded[j] => i = j
            /\ \A k \in DOMAIN yielded :
                  /\ 0 <= yielded[k].x /\ yielded[k].x < PieceWidth(P, T)
                  /\ 0 <= yielded[k].y /\ yielded[k].y < PieceHeight(P, T)

\* The positions of a piece of two or more cells that is not as wide as it
\* is high have been yielded under a rotation by 90 degrees.
C22_Witness ==
    /\ call.op = "positions"
    /\ call.transformation.rotation = "Clockwise90"
    /\ PieceSize(built_piece[1]) >= 2
    /\ built_piece[1].dimension.width # built_piece[1].dimension.height
    /\ Len(result.value) = PieceSize(built_piece[1])

\* C23: Piece::new normalises its list of positions: the stored positions are
\* sorted by x, then y, without repeats, and are the cells of the list; the
\* stored dimension is the tight one, 1 + the largest x wide and 1 + the
\* largest y high, and 0 by 0 for the empty list; and the same piece comes of
\* the stored positions, of the list backwards and of the list twice over.
C23_NewNormalises ==
    call.op = "new" =>
        LET P == result.value
            stored == P.positions
            cells == Range(call.positions)
        IN  /\ built_piece = Some(P)
            /\ \A i, j \in DOMAIN stored : i < j => PosLess(stored[i], stored[j])
            /\ Range(stored) = cells
            /\ P.dimension =
                 IF cells = {} THEN Dimension(0, 0)
                 ELSE Dimension(1 + Largest({ c.x : c \in cells }),
                                1 + Largest({ c.y : c \in cells }))
            /\ PieceNew(stored, P.cost, P.distance, P.collect) = P
            /\ PieceNew(Reversed(call.positions), P.cost, P.distance, P.collect) = P
            /\ PieceNew(call.positions \o call.positions, P.cost, P.distance, P.collect) = P

\* A piece has been built from a list of three positions that is neither
\* sorted nor free of repeats.
C23_Witness ==
    /\ call.op = "new"
    /\ Len(call.positions) = 3
    /\ call.positions[1] = call.positions[3]
    /\ PosLess(call.positions[2], call.positions[1])
    /\ Len(result.value.positions) = 2

PositionsCalled == call'.op = "positions"

\* C24: Piece::positions(T) yields the images of the stored positions in the
\* stored order (not sorted again after the transformation), and leaves the
\* piece as it was, so that a second call with the same T yields the same
\* sequence.
C24_PositionsRestartable ==
    [][ PositionsCalled =>
          /\ built_piece' = built_piece
          /\ result' = Ok([k \in 1 .. Len(built_piece[1].positions) |->
                              TransformationApply(call'.transformation,
                                                  built_piece[1].dimension,
                                                  built_piece[1].positions[k])])
      ]_vars

\* The positions of a piece have been yielded under a transformation other
\* than the identity, in an order that is not the sorted one.
C24_Witness ==
    /\ call.op = "positions"
    /\ call.transformation # TransformationIdentity
    /\ result.status = "ok"
    /\ \E k \in 1 .. Len(result.value) - 1 :
          PosLess(result.value[k + 1], result.value[k])

----------------------------------------------------------------------------
\* The vocabulary of the claims about the shuffle.

\* The one-to-one maps of 1 .. n onto itself.
Bijections(n) ==
    { f \in [1 .. n -> 1 .. n] : \A i, j \in 1 .. n : f[i] = f[j] => i = j }

\* All the orders the elements of a sequence can be put in.
Orderings(s) == { [k \in 1 .. Len(s) |-> s[f[k]]] : f \in Bijections(Len(s)) }

\* C25: the shuffle of the piece queue and of the play order swaps element i,
\* from the last down to the second, with an element j of 0 ..= i (j = i
\* allowed), so every permutation of the input, the input order included, can
\* come out; and in a shuffled game of two either player can be first to move.
C25_ShuffleReachesEveryPermutation ==
    /\ call.op = "play_order_new" =>
          /\ PlayOrderNew(call.nplayers) = Orderings(new_in_order(call.nplayers))
          /\ call.nplayers = 2 =>
                { PlayOrderTop(order) : order \in PlayOrderNew(2) } = { 0, 1 }
    /\ call.op = "build" =>
          PieceBoardBuild(call.pieces) = Orderings(call.pieces)

\* C26: GameState::is_game_over() is true iff the time board's is_game_over()
\* is true or the piece queue is empty; so a game whose queue the takes have
\* emptied is over even while a player is short of the last square.
C26_GameOverIffTrackOverOrQueueEmpty ==
    call.op = "game_is_game_over" =>
        result = Ok((\A i \in DOMAIN squares :
                        squares[i].players # << >> => i = LastIndex(squares))
                    \/ Len(piece_queue) = 0)

\* The game has been found over with its two pieces taken and tokens still on
\* the first square of a track of three.
C26_Witness ==
    /\ call.op = "game_is_game_over"
    /\ result = Ok(TRUE)
    /\ Len(given) = 2 /\ ntaken = 2 /\ piece_queue = << >>
    /\ NumSquares(squares) = 3
    /\ Len(squares[0].players) >= 1

\* Every token of the track is on its last square.
AllOnLast(sq) == \A i \in DOMAIN sq : sq[i].players # << >> => i = LastIndex(sq)

\* C27: a contract violation on the track is fatal: move_player(0), and
\* move_player when the game is over, panic before a token is moved or a
\* grant consumed, so the track is as it was; building a track (or
\* configuring a game) with fewer than two players panics too; and nothing
\* is done after a panic.
C27_ContractViolationsAreFatal ==
    [][ /\ result.status # "panic"
        /\ (call'.op = "move_player" /\ (call'.arg = 0 \/ AllOnLast(squares))) =>
              /\ result' = Panic
              /\ squares' = squares
        /\ (call'.op = "from_slice" /\ call'.nplayers < 2) =>
              /\ result' = Panic
              /\ squares' = << >>
        /\ (call'.op = "nplayers" /\ call'.arg < 2) => result' = Panic
      ]_vars

\* move_player with a distance greater than 0 has panicked on a track of
\* three squares, one with a grant still on it, whose tokens are all on the
\* last square.
C27_Witness ==
    /\ call.op = "move_player" /\ call.arg > 0
    /\ result = Panic
    /\ NumSquares(squares) = 3
    /\ Len(squares[2].players) = nplayers
    /\ \E i \in DOMAIN squares : squares[i].piece # None

\* The covered cells of the grid.
CoveredCells(b) == { c \in Cells(b.dimension) : Covered(b, c) }

\* C28: positions_covered() is the number of covered cells of the grid; a
\* successful add_piece increases it by the piece's size() and a failing one
\* leaves it as it was; so it is always the sum of the sizes of the pieces
\* placed successfully.
C28_PositionsCoveredIsSumOfSizes ==
    /\ [](/\ positions_covered(board) = Cardinality(CoveredCells(board))
          /\ positions_covered(board) = placed_size)
    /\ [][AddCalled =>
            positions_covered(board') =
                IF result'.status = "ok"
                THEN positions_covered(board) + PieceSize(call'.piece)
                ELSE positions_covered(board)]_vars

\* A piece of three cells has been placed, in two rows, and a further
\* add_piece has just failed on the board, which has a cell still free.
C28_Witness ==
    /\ call.op = "add_piece" /\ result.status = "err"
    /\ placed_size = PieceSize(piece3)
    /\ positions_covered(board) = 3
    /\ \E c \in Cells(board.dimension) : ~ Covered(board, c)

\* The token a move takes, and a move that lands on a square that holds
\* other tokens already.
Mover == TopToken(squares, StartOfMove)
LandsOnOthers == Moved /\ squares[StopOfMove].players # << >>

\* C29, as stated: a player who lands on a square that holds other tokens is
\* placed on top of them and, when that square is the lowest occupied one, is
\* the current player.
C29_LanderIsCurrentPlayer ==
    [][ LandsOnOthers =>
          /\ squares'[StopOfMove].players = Append(squares[StopOfMove].players, Mover)
          /\ StopOfMove = LowestOccupied(squares') =>
                current_player(squares') = Some(Mover)
      ]_vars

\* C29, amended: a player who lands on a square that holds other tokens is
\* placed on top of them, the earlier arrivals staying beneath in their order;
\* when that square is the lowest occupied one and is short of the last
\* square, the lander is the current player, before any token that arrived
\* there earlier; on the last square the game is over and there is no current
\* player.
C29_LastInFirstOut ==
    [][ LandsOnOthers =>
          /\ squares'[StopOfMove].players = Append(squares[StopOfMove].players, Mover)
          /\ StopOfMove = LowestOccupied(squares') =>
                current_player(squares') =
                    IF StopOfMove = LastIndex(squares) THEN None ELSE Some(Mover)
      ]_vars

\* Three players have landed one after the other on the middle square of a
\* track of three, and the one who landed last is the current player.
C29_Witness ==
    /\ call.op = "move_player" /\ result.status = "ok"
    /\ nplayers = 3
    /\ NumSquares(squares) = 3
    /\ Len(squares[1].players) = 3
    /\ current_player(squares) = Some(squares[1].players[3])

\* The track is as it was built: no call has been made on it.
InitialTrack == call = NoCall

\* C30: on the track as built every token is on square 0, so
\* index_of_current_player() and index_of_next_player() are 0 and, on a track
\* of more than one square, the game is not over; with the play order of
\* new_in_order the players come off square 0 in increasing order: player 0
\* moves first, then player 1, and so on.
C30_InitialTrackAndFirstMoves ==
    /\ [](InitialTrack =>
            /\ Len(squares[0].players) = nplayers
            /\ \A p \in 0 .. nplayers - 1 : TokensOn(squares, 0, p) = 1
            /\ \A i \in DOMAIN squares : i # 0 => squares[i].players = << >>
            /\ index_of_current_player(squares) = 0
            /\ index_of_next_player(squares) = 0
            /\ NumSquares(squares) > 1 =>
                  /\ ~ is_game_over(squares)
                  /\ current_player(squares) = Some(0))
    /\ [][ (Moved /\ StartOfMove = 0) =>
              Mover = nplayers - Len(squares[0].players) ]_vars

\* Three players have left square 0 of a track of three squares by one square
\* each, and lie on square 1 in the order of their moves: player 0 first and
\* player 2 last.
C30_Witness ==
    /\ call.op = "move_player" /\ result.status = "ok"
    /\ nplayers = 3
    /\ NumSquares(squares) = 3
    /\ squares[0].players = << >>
    /\ squares[1].players = << 0, 1, 2 >>

\* The stack without its top token.
Beneath(stack) == SubSeq(stack, 1, Len(stack) - 1)

\* C31: a move_player that returns changes the mover's position and the piece
\* grants of the squares in (start, stop], and nothing else: every other
\* token stays on its square, the tokens that did not move keep their order
\* in their stacks, the grants of the squares at or before start and beyond
\* stop, every collect flag and the number of squares are as before.
C31_MoveChangesOnlyMoverAndSweptGrants ==
    [][ Moved =>
          /\ DOMAIN squares' = DOMAIN squares
          /\ \A i \in DOMAIN squares :
                /\ squares'[i].collect = squares[i].collect
                /\ i \notin RangeOfMove => squares'[i].piece = squares[i].piece
                /\ i \notin { StartOfMove, StopOfMove } =>
                      squares'[i].players = squares[i].players
          /\ squares'[StartOfMove].players = Beneath(squares[StartOfMove].players)
          /\ Beneath(squares'[StopOfMove].players) = squares[StopOfMove].players
          /\ \A p \in 0 .. nplayers - 1 :
                p # Mover => SquareOf(squares', p) = SquareOf(squares, p)
          /\ nplayers' = nplayers
      ]_vars

\* A move has left a token behind on a start square that still has its piece
\* grant, has landed on a token short of the last square, and a grant lies
\* beyond the stop square.
C31_Witness ==
    /\ call.op = "move_player" /\ result.status = "ok"
    /\ NumSquares(squares) = 3
    /\ squares[0].players # << >> /\ squares[0].piece # None
    /\ Len(squares[1].players) = 2
    /\ squares[2].piece # None

\* This step is a call of move_player that its two assertions let through.
LegalMove == call'.op = "move_player" /\ call'.arg > 0 /\ ~ is_game_over(squares)

\* C32: every legal move advances the mover: move_player(distance) with
\* distance > 0 on a track whose game is not over returns a distance that is
\* at least 1 and at most the distance asked for, the mover's square index
\* grows by exactly the distance returned, and no call makes any player's
\* square index smaller.
C32_MovesAdvance ==
    [][ /\ LegalMove =>
             /\ result'.status = "ok"
             /\ 1 <= result'.distance /\ result'.distance <= call'.arg
             /\ SquareOf(squares', Mover) = SquareOf(squares, Mover) + result'.distance
        /\ \A p \in 0 .. nplayers - 1 : SquareOf(squares', p) >= SquareOf(squares, p)
      ]_vars

\* The square indices of all tokens, summed: how far the players have come.
Advance(sq) == SumOver([i \in DOMAIN sq |-> i * Len(sq[i].players)], DOMAIN sq)

\* C33: the track game terminates: with n players and last square index L,
\* every legal move_player call returns and brings the players forward, by at
\* least one square in all, to a total that is at most n * L and is n * L
\* exactly when is_game_over() is true, so that every sequence of legal calls
\* reaches the end of the game within n * L moves; and once the game is over no
\* call is legal.
C33_TrackGameTerminates ==
    /\ [](/\ Advance(squares) <= nplayers * LastIndex(squares)
          /\ is_game_over(squares) <=>
                Advance(squares) = nplayers * LastIndex(squares))
    /\ [][ /\ LegalMove =>
                /\ result'.status = "ok"
                /\ Advance(squares') >= Advance(squares) + 1
           /\ (call'.op = "move_player" /\ is_game_over(squares)) =>
                /\ result' = Panic
                /\ squares' = squares
         ]_vars

\* A time board has been built.
Built == squares # << >>

\* C34: on a track built with at least two players neither unreachable!() is
\* executed, in any state, the states after the end of the game included:
\* index_of_current_player() finds an occupied square, and
\* index_of_next_player() returns, because the current square holds more than
\* one token or a square of higher index holds one.
C34_UnreachableIsNotReached ==
    Built =>
        /\ nplayers >= 2
        /\ index_of_current_player(squares) # Unreachable
        /\ index_of_current_player(squares) = LowestOccupied(squares)
        /\ index_of_next_player(squares) # Unreachable
        /\ \/ Len(squares[LowestOccupied(squares)].players) > 1
           \/ \E i \in Occupied(squares) : i > LowestOccupied(squares)

\* The game is over on a track of three squares built by from_slice and
\* played to its end: the last move has put the last token on the last square,
\* which is the square of the current and of the next player.
C34_Witness ==
    /\ Built
    /\ call.op = "move_player" /\ result.status = "ok"
    /\ NumSquares(squares) = 3
    /\ is_game_over(squares)
    /\ index_of_next_player(squares) = 2

\* Every cell of the placement lies inside the board and is not covered.
CellsFree(b, position, piece, t) ==
    \A c \in PlacedCells(position, piece, t) :
        c \in Cells(b.dimension) /\ ~ Covered(b, c)

C36_CoveredSquareStaysCovered ==
    [][ \/ board' = board
        \/ \A n \in SquareSizes, build \in Builds :
              is_square_covered(board, n, build) = Ok(TRUE) =>
                  is_square_covered(board', n, build) = Ok(TRUE)
      ]_vars

\* add_piece has put a second piece on a board of two rows and two columns
\* that had a covered square of size 1, which is still covered, and there is
\* no covered square of size 2.
C36_Witness ==
    /\ call.op = "add_piece" /\ result = Ok(Unit)
    /\ board.dimension = Dimension(2, 2)
    /\ placed_size > PieceSize(call.piece)
    /\ is_square_covered(board, 1, "debug") = Ok(TRUE)
    /\ is_square_covered(board, 2, "debug") = Ok(FALSE)

\* Clockwise90 applied once more to a position that n quarter turns have
\* brought into the dimension d turned n times.
QuarterTurn(d, q, n) ==
    RotationApply("Clockwise90",
                  IF n % 2 = 0 THEN d ELSE RotationApplyDim("Clockwise90", d), q)

\* C37: the rotations compose as their names say and the flip is an
\* involution: for a cell p of a dimension d, Clockwise90 applied twice, the
\* second time in the transposed dimension, is Clockwise180, applied three
\* times it is Clockwise270, applied four times it is p; and the horizontal
\* flip applied twice in the same dimension is p.
C37_RotationsComposeAndFlipIsInvolution ==
    (call.op = "apply" /\ result.status = "ok") =>
        LET d  == call.d
            p  == call.p
            q1 == result.value
            q2 == QuarterTurn(d, q1, 1)
            q3 == QuarterTurn(d, q2, 2)
            q4 == QuarterTurn(d, q3, 3)
        IN  /\ call.transformation = Transformation("Clockwise90", "Identity") =>
                /\ q1 = RotationApply("Clockwise90", d, p)
                /\ q2 = RotationApply("Clockwise180", d, p)
                /\ q3 = RotationApply("Clockwise270", d, p)
                /\ q4 = p
            /\ call.transformation = Transformation("NoRotation", "Horizontal") =>
                /\ q1 = FlipApply("Horizontal", d, p)
                /\ FlipApply("Horizontal", d, q1) = p

\* Clockwise90 has been applied to a corner cell of a dimension that is wider
\* than it is high, a cell that every quarter turn moves.
C37_Witness ==
    /\ call.op = "apply" /\ result.status = "ok"
    /\ call.transformation = Transformation("Clockwise90", "Identity")
    /\ call.d = Dimension(3, 2)
    /\ call.p = Position(0, 0)
    /\ result.value = Position(1, 0)
    /\ QuarterTurn(call.d, result.value, 1) = Position(2, 1)

====
